---- MODULE Spec2Model ----
(***************************************************************************)
(* Two cellular automata of the repository:                                *)
(*   2020/day-11  the rectangular seating automaton (struct Layout)        *)
(*   2020/day-24  the hexagonal tile automaton (BitSet of tile addresses)  *)
(***************************************************************************)
EXTENDS Integers, Sequences, FiniteSets

VARIABLES
    \* ---- day-11: struct Layout and the position of main
    line_of_sight,   \* Layout.line_of_sight
    map,             \* Layout.map, a sequence of cells; address a is map[a + 1]
    column_count,    \* Layout.column_count (-1 until the first line)
    row_count,       \* Layout.row_count
    phase,           \* "ingest" | "evolve" | "panicked" | "idle"
    ret,             \* what the last call to evolve() returned: "none", "true", "false"
    ret_before,      \* what `ret` was when the last evolve() was called
    before,          \* the map as it was when the last evolve() was called
    seen,            \* the maps evolve() has been called on so far
    ingested,        \* the map as it was when the read loop ended
    accepted,        \* the lines add_line has returned from, in order
    offered,         \* the line of the last call to add_line
    expected,        \* column_count as the last call to add_line found it
    \* ---- day-24: the state of main
    overflow_checks, \* the build panics on integer overflow (TRUE) or wraps (FALSE)
    black_tiles,     \* the BitSet black_tiles: a set of tile addresses
    hphase,          \* "ingest" | "evolve" | "done" | "panicked_ingest" |
                     \* "panicked_evolve" | "idle"
    day,             \* the calls to evolve_tiles that have returned
    black_before,    \* black_tiles as it was when evolve_tiles was last called
    seed,            \* black_tiles as it was when the read loop ended
    lines,           \* the lines read so far, while the reader is alive
    printed,         \* the counts main has printed
    \* ---- day-24: a round trip through the address of a coordinate
    probe,           \* the coordinate or the address the round trip starts from
    echo,            \* what came back
    echoed,          \* the round trip has been made
    \* ---- day-24: a coordinate stepped from the origin, as in get_coordinate
    walker,          \* the coordinate
    wphase,          \* "walking" | "panicked" | "idle"
    walk_checks,     \* the build panics on integer overflow (TRUE) or wraps (FALSE)
    \* ---- day-24: one call to get_coordinate
    path,            \* the line
    landed,          \* what get_coordinate returned, once it was called
    pphase,          \* "line" | "returned" | "panicked" | "idle"
    path_checks      \* the build panics on integer overflow (TRUE) or wraps (FALSE)

rectVars ==
    <<line_of_sight, map, column_count, row_count, phase, ret, ret_before, before, seen,
      ingested, accepted, offered, expected>>

hexVars == <<overflow_checks, black_tiles, hphase, day, black_before, seed, lines, printed>>

addressVars == <<probe, echo, echoed>>

walkVars == <<walker, wphase, walk_checks>>

pathVars == <<path, landed, pphase, path_checks>>

vars == <<rectVars, hexVars, addressVars, walkVars, pathVars>>

(***************************************************************************)
(* Bounds of the model.                                                    *)
(***************************************************************************)
MaxRows == 3       \* rows ingested, full alphabet
MaxCols == 3       \* bytes per line, full alphabet
BigRows == 4       \* rows ingested in the large-grid specification
BigCols == 4       \* bytes per line in the large-grid specification
MaxMarked == 4     \* bytes other than `L` in a large grid
MaxWide == 7       \* bytes of the line in the one-row specification
MaxLines == 3      \* lines of direction tokens read
MaxChars == 2      \* characters of a short line of direction tokens
MaxRun == 64       \* tokens of the longest line that repeats one direction
RunLengths == 3    \* the lengths of such lines: the RunLengths longest ones
MaxBlack == 12
MaxPathChars == 6     \* evolve_tiles is followed on black sets up to this size

(***************************************************************************)
(* day-11: cells, lines, ingestion                                         *)
(***************************************************************************)
Cell == {"Floor", "Empty", "Occupied"}

\* the bytes a line is made of; "x" stands for every byte add_line rejects
InputBytes == {".", "L", "#", "x"}

RECURSIVE LinesOfLength(_)
LinesOfLength(n) ==
    IF n = 0 THEN {<<>>}
    ELSE {Append(l, b) : l \in LinesOfLength(n - 1), b \in InputBytes}

Lines(maxCols) == UNION {LinesOfLength(n) : n \in 0..maxCols}

\* the match of add_line: the cell a byte stands for, "panic" for any other byte
CellOfByte(byte) ==
    CASE byte = "." -> "Floor"
      [] byte = "L" -> "Empty"
      [] byte = "#" -> "Occupied"
      [] OTHER -> "panic"

Layout == [line_of_sight |-> line_of_sight, map |-> map,
           column_count |-> column_count, row_count |-> row_count]

get_address(self, row, column) == row * self.column_count + column

get_cell(self, row, column) == self.map[get_address(self, row, column) + 1]

(***************************************************************************)
(* day-11: the neighbour evaluator                                         *)
(***************************************************************************)
\* mutant: the ray stops at the first cell whatever the policy
has_adjacent_occupant_one_step(self, row0, column0, delta_x, delta_y) ==
    LET row == row0 + delta_y
        column == column0 + delta_x
    IN  IF row < 0 \/ row >= self.row_count THEN FALSE
        ELSE IF column < 0 \/ column >= self.column_count THEN FALSE
        ELSE get_cell(self, row, column) = "Occupied"

\* the loop of has_adjacent_occupant: one pass per call, the next pass by recursion
RECURSIVE has_adjacent_occupant(_, _, _, _, _)
has_adjacent_occupant(self, row0, column0, delta_x, delta_y) ==
    LET row == row0 + delta_y
        column == column0 + delta_x
    IN  IF row < 0 \/ row >= self.row_count THEN FALSE
        ELSE IF column < 0 \/ column >= self.column_count THEN FALSE
        ELSE LET cell == get_cell(self, row, column)
             IN  IF cell = "Empty" THEN FALSE
                 ELSE IF cell = "Occupied" THEN TRUE
                 ELSE IF ~self.line_of_sight THEN FALSE
                 ELSE has_adjacent_occupant(self, row, column, delta_x, delta_y)

\* mutant: the column is not compared with column_count; the address is
\* compared with the length of the map
RECURSIVE ReadsFrom_address_fenced(_, _, _, _, _, _)
ReadsFrom_address_fenced(self, row0, column0, delta_x, delta_y, reads) ==
    LET row == row0 + delta_y
        column == column0 + delta_x
        address == row * self.column_count + column
    IN  IF row < 0 \/ row >= self.row_count THEN [result |-> FALSE, reads |-> reads]
        ELSE IF address < 0 \/ address >= Len(self.map) THEN [result |-> FALSE, reads |-> reads]
        ELSE LET cell == self.map[address + 1]
                 read == Append(reads, [row |-> row, column |-> column, address |-> address])
             IN  IF cell = "Empty" THEN [result |-> FALSE, reads |-> read]
                 ELSE IF cell = "Occupied" THEN [result |-> TRUE, reads |-> read]
                 ELSE IF ~self.line_of_sight THEN [result |-> FALSE, reads |-> read]
                 ELSE ReadsFrom_address_fenced(self, row, column, delta_x, delta_y, read)

has_adjacent_occupant_address_fenced(self, row0, column0, delta_x, delta_y) ==
    ReadsFrom_address_fenced(self, row0, column0, delta_x, delta_y, <<>>)

\* the loop of has_adjacent_occupant with the calls to get_cell it makes: what
\* it returns, and the row, column and address of every cell it reads
RECURSIVE ReadsFrom(_, _, _, _, _, _)
ReadsFrom(self, row0, column0, delta_x, delta_y, reads) ==
    LET row == row0 + delta_y
        column == column0 + delta_x
    IN  IF row < 0 \/ row >= self.row_count THEN [result |-> FALSE, reads |-> reads]
        ELSE IF column < 0 \/ column >= self.column_count
        THEN [result |-> FALSE, reads |-> reads]
        ELSE LET cell == get_cell(self, row, column)
                 read == Append(reads, [row |-> row, column |-> column,
                                        address |-> get_address(self, row, column)])
             IN  IF cell = "Empty" THEN [result |-> FALSE, reads |-> read]
                 ELSE IF cell = "Occupied" THEN [result |-> TRUE, reads |-> read]
                 ELSE IF ~self.line_of_sight THEN [result |-> FALSE, reads |-> read]
                 ELSE ReadsFrom(self, row, column, delta_x, delta_y, read)

has_adjacent_occupant_reads(self, row0, column0, delta_x, delta_y) ==
    ReadsFrom(self, row0, column0, delta_x, delta_y, <<>>)

\* the directions in the order of the two nested loops: delta_y outside,
\* delta_x inside, (0, 0) skipped; each is <<delta_x, delta_y>>
Deltas == << <<-1, -1>>, <<0, -1>>, <<1, -1>>,
             <<-1, 0>>,             <<1, 0>>,
             <<-1, 1>>,  <<0, 1>>,  <<1, 1>> >>

\* the count at which count_adjacent_occupants stops scanning (both policies)
EarlyExitCount == 5

\* count_adjacent_occupants from direction i on, with `count` found so far
RECURSIVE CountFrom(_, _, _, _, _, _)
CountFrom(self, row, column, expecting_zero, i, count) ==
    IF i > Len(Deltas) THEN count
    ELSE IF has_adjacent_occupant(self, row, column, Deltas[i][1], Deltas[i][2])
         THEN IF expecting_zero \/ count + 1 >= EarlyExitCount
              THEN count + 1
              ELSE CountFrom(self, row, column, expecting_zero, i + 1, count + 1)
         ELSE CountFrom(self, row, column, expecting_zero, i + 1, count)

\* mutant: the scan stops at the third occupant
count_adjacent_occupants_three(self, row, column, expecting_zero) ==
    LET count == CountFrom(self, row, column, expecting_zero, 1, 0)
    IN  IF count > 3 THEN 3 ELSE count

count_adjacent_occupants(self, row, column, expecting_zero) ==
    CountFrom(self, row, column, expecting_zero, 1, 0)

(***************************************************************************)
(* day-11: the changeset and the step                                      *)
(***************************************************************************)
AdjacentThreshold == 4
LineOfSightThreshold == 5

\* mutant: one occupied neighbour fewer makes a seat empty
abandonment_threshold_low(self) ==
    IF self.line_of_sight THEN LineOfSightThreshold - 1 ELSE AdjacentThreshold - 1

\* mutant: under line of sight three occupied neighbours make a seat empty
abandonment_threshold_three_in_sight(self) ==
    IF self.line_of_sight THEN LineOfSightThreshold - 2 ELSE AdjacentThreshold

\* mutant: `>` where the code compares with `>=`
abandonment_threshold_strict(self) ==
    IF self.line_of_sight THEN LineOfSightThreshold + 1 ELSE AdjacentThreshold + 1

abandonment_threshold(self) ==
    IF self.line_of_sight THEN LineOfSightThreshold ELSE AdjacentThreshold

\* mutant: a Floor cell without an occupant in sight is given an occupant
ChangeOfCell_seats_floor(self, row, column) ==
    LET cell == get_cell(self, row, column)
    IN  IF cell = "Occupied"
        THEN IF count_adjacent_occupants(self, row, column, FALSE)
                   >= abandonment_threshold(self)
             THEN <<[address |-> get_address(self, row, column), cell |-> "Empty"]>>
             ELSE <<>>
        ELSE IF count_adjacent_occupants(self, row, column, TRUE) = 0
             THEN <<[address |-> get_address(self, row, column), cell |-> "Occupied"]>>
             ELSE <<>>

\* mutant: a Change is pushed for every seat, with the state the rule gives it
ChangeOfCell_every_seat(self, row, column) ==
    LET cell == get_cell(self, row, column)
    IN  IF cell = "Floor" THEN <<>>
        ELSE IF cell = "Empty"
             THEN <<[address |-> get_address(self, row, column),
                     cell |-> IF count_adjacent_occupants(self, row, column, TRUE) = 0
                              THEN "Occupied" ELSE "Empty"]>>
             ELSE <<[address |-> get_address(self, row, column),
                     cell |-> IF count_adjacent_occupants(self, row, column, FALSE)
                                    >= abandonment_threshold(self)
                              THEN "Empty" ELSE "Occupied"]>>

\* the Change collect_changes pushes for one cell: <<>> or a one-element sequence
ChangeOfCell(self, row, column) ==
    LET cell == get_cell(self, row, column)
    IN  IF cell = "Floor" THEN <<>>
        ELSE IF cell = "Empty"
             THEN IF count_adjacent_occupants(self, row, column, TRUE) = 0
                  THEN <<[address |-> get_address(self, row, column), cell |-> "Occupied"]>>
                  ELSE <<>>
             ELSE IF count_adjacent_occupants(self, row, column, FALSE)
                        >= abandonment_threshold(self)
                  THEN <<[address |-> get_address(self, row, column), cell |-> "Empty"]>>
                  ELSE <<>>

\* the two nested loops of collect_changes from cell (row, column) on
RECURSIVE CollectFrom(_, _, _)
CollectFrom(self, row, column) ==
    IF row >= self.row_count THEN <<>>
    ELSE IF column >= self.column_count THEN CollectFrom(self, row + 1, 0)
    ELSE ChangeOfCell(self, row, column) \o CollectFrom(self, row, column + 1)

collect_changes(self) == CollectFrom(self, 0, 0)

\* the drain loop of apply_changes: the map after changes[i..] are written to m
RECURSIVE ApplyFrom(_, _, _)
ApplyFrom(m, changes, i) ==
    IF i > Len(changes) THEN m
    ELSE ApplyFrom([m EXCEPT ![changes[i].address + 1] = changes[i].cell], changes, i + 1)

apply_changes(self, changes) == ApplyFrom(self.map, changes, 1)

count_occupants(self) ==
    Cardinality({a \in 1..Len(self.map) : self.map[a] = "Occupied"})

(***************************************************************************)
(* day-11: the actions                                                     *)
(***************************************************************************)
\* Layout::new(line_of_sight) in main, before the first line is read
InitLayout ==
    /\ line_of_sight \in BOOLEAN
    /\ map = <<>>
    /\ column_count = -1
    /\ row_count = 0
    /\ phase = "ingest"
    /\ ret = "none"
    /\ ret_before = "none"
    /\ before = <<>>
    /\ seen = {}
    /\ ingested = <<>>
    /\ accepted = <<>>
    /\ offered = <<>>
    /\ expected = -1

\* the bytes of a line other than `L`
Marked(line) == Cardinality({i \in 1..Len(line) : line[i] # "L"})

CellsOfLine(line) == [i \in 1..Len(line) |-> CellOfByte(line[i])]

\* a panic unwinds main: the Layout is dropped and the process ends
Panic ==
    /\ phase' = "panicked"
    /\ accepted' = <<>>
    /\ map' = <<>>
    /\ column_count' = -1
    /\ row_count' = 0
    /\ ret' = "none"
    /\ ret_before' = "none"
    /\ before' = <<>>
    /\ seen' = {}
    /\ ingested' = <<>>
    /\ UNCHANGED line_of_sight

\* mutant: the length of the line is not compared with column_count
add_line_any_width(line) ==
    /\ offered' = line
    /\ expected' = column_count
    /\ IF \E i \in 1..Len(line) : CellOfByte(line[i]) = "panic"
       THEN Panic
       ELSE /\ map' = map \o CellsOfLine(line)
            /\ column_count' = IF column_count < 0 THEN Len(line) ELSE column_count
            /\ row_count' = row_count + 1
            /\ accepted' = Append(accepted, line)
            /\ UNCHANGED <<line_of_sight, phase, ret, ret_before, before, seen, ingested>>

\* Layout::add_line
add_line(line) ==
    /\ offered' = line
    /\ expected' = column_count
    /\ IF \E i \in 1..Len(line) : CellOfByte(line[i]) = "panic"
       THEN Panic
       ELSE IF column_count >= 0 /\ Len(line) # column_count
       THEN Panic
       ELSE /\ map' = map \o CellsOfLine(line)
            /\ column_count' = IF column_count < 0 THEN Len(line) ELSE column_count
            /\ row_count' = row_count + 1
            /\ accepted' = Append(accepted, line)
            /\ UNCHANGED <<line_of_sight, phase, ret, ret_before, before, seen, ingested>>

\* one pass of the read loop of main that reads a line
AddLine(maxRows, maxCols, maxMarked) ==
    /\ phase = "ingest"
    /\ row_count < maxRows
    /\ \E line \in Lines(maxCols) :
          /\ Cardinality({a \in 1..Len(map) : map[a] # "Empty"}) + Marked(line) <= maxMarked
          /\ add_line(line)

\* the read loop of main reaches the end of the input
EndOfInput ==
    /\ phase = "ingest"
    /\ phase' = "evolve"
    /\ ingested' = map
    /\ UNCHANGED <<line_of_sight, map, column_count, row_count, ret, ret_before, before, seen,
                   accepted, offered, expected>>

\* mutant: each change is written to the map as soon as it is found, so the
\* cells scanned later see it
RECURSIVE InPlaceFrom(_, _, _, _)
InPlaceFrom(self, row, column, changed) ==
    IF row >= self.row_count THEN [map |-> self.map, result |-> changed]
    ELSE IF column >= self.column_count THEN InPlaceFrom(self, row + 1, 0, changed)
    ELSE LET change == ChangeOfCell(self, row, column)
         IN  InPlaceFrom([self EXCEPT !.map = ApplyFrom(self.map, change, 1)],
                         row, column + 1, changed \/ change # <<>>)

evolve_in_place(self) == InPlaceFrom(self, 0, 0, FALSE)

\* mutant: the changes are drained before they are tested for emptiness
evolve_drained(self) ==
    [map |-> apply_changes(self, collect_changes(self)), result |-> FALSE]

\* mutant: evolve() returns true whether or not there are changes
evolve_always_true(self) ==
    [map |-> apply_changes(self, collect_changes(self)), result |-> TRUE]

\* Layout::evolve
evolve(self) ==
    LET changes == collect_changes(self)
    IN  IF changes = <<>>
        THEN [map |-> self.map, result |-> FALSE]
        ELSE [map |-> apply_changes(self, changes), result |-> TRUE]

\* one call to evolve(): a pass of `while layout.evolve() {}`, or a later call
Evolve ==
    /\ phase = "evolve"
    /\ LET r == evolve(Layout)
       IN  /\ map' = r.map
           /\ ret' = IF r.result THEN "true" ELSE "false"
    /\ ret_before' = ret
    /\ before' = map
    /\ seen' = seen \cup {map}
    /\ UNCHANGED <<line_of_sight, column_count, row_count, phase, ingested, accepted, offered,
                   expected>>

(***************************************************************************)
(* day-11: the transition rule as the specification states it, without the *)
(* loops and early exits of the code                                       *)
(***************************************************************************)
Directions8 == {d \in (-1..1) \X (-1..1) : d # <<0, 0>>}

InGrid(self, row, column) ==
    /\ 0 <= row /\ row < self.row_count
    /\ 0 <= column /\ column < self.column_count

\* the cell `k` steps from (row, column) in direction d = <<delta_x, delta_y>>
CellAtDistance(self, row, column, d, k) ==
    self.map[(row + k * d[2]) * self.column_count + (column + k * d[1]) + 1]

\* an occupied seat is what (row, column) sees in direction d
SeesOccupant(self, row, column, d) ==
    IF self.line_of_sight
    THEN \E k \in 1..(self.row_count + self.column_count) :
            /\ InGrid(self, row + k * d[2], column + k * d[1])
            /\ CellAtDistance(self, row, column, d, k) = "Occupied"
            /\ \A j \in 1..(k - 1) : CellAtDistance(self, row, column, d, j) = "Floor"
    ELSE /\ InGrid(self, row + d[2], column + d[1])
         /\ CellAtDistance(self, row, column, d, 1) = "Occupied"

FullCount(self, row, column) ==
    Cardinality({d \in Directions8 : SeesOccupant(self, row, column, d)})

RuleCell(self, row, column) ==
    LET cell == self.map[row * self.column_count + column + 1]
        n == FullCount(self, row, column)
    IN  IF cell = "Empty" /\ n = 0 THEN "Occupied"
        ELSE IF cell = "Occupied" /\ n >= (IF self.line_of_sight THEN 5 ELSE 4) THEN "Empty"
        ELSE cell

RuleMap(self) ==
    [a \in 1..Len(self.map) |->
        RuleCell(self, (a - 1) \div self.column_count, (a - 1) % self.column_count)]

\* the layout the last evolve() was called on
LayoutBefore == [Layout EXCEPT !.map = before]

HasFloor(m) == \E a \in 1..Len(m) : m[a] = "Floor"
HasOccupied(m) == \E a \in 1..Len(m) : m[a] = "Occupied"

(***************************************************************************)
(* Claims about day-11                                                     *)
(***************************************************************************)

\* C1: after every call to evolve(), under either policy, the map is the map
\* the call was made on with the transition rule applied to every cell at
\* once: Floor stays Floor, Empty becomes Occupied iff it sees no occupant in
\* any of the 8 directions, Occupied becomes Empty iff it sees at least 4
\* (adjacent) or 5 (line of sight), every other cell keeps its state.
C1_EvolveAppliesRuleToSnapshot ==
    ret # "none" => map = RuleMap(LayoutBefore)

\* C1 witness: under the line-of-sight policy one call emptied a seat of a grid
\* with floor and left an occupied seat and an empty seat as they were
C1_Witness ==
    /\ ret = "true"
    /\ line_of_sight
    /\ HasFloor(map)
    /\ \E a \in 1..Len(map) : before[a] = "Occupied" /\ map[a] = "Empty"
    /\ \E a \in 1..Len(map) : before[a] = "Occupied" /\ map[a] = "Occupied"
    /\ \E a \in 1..Len(map) : before[a] = "Empty" /\ map[a] = "Empty"

\* C3 as stated: under the adjacent policy the loop `while layout.evolve() {}`
\* ends for every grid. A grid has finitely many states and evolve() is a
\* function of the map, so the loop ends iff no call that returns true produces
\* a map evolve() was already called on.
C3_AdjacentLoopEnds ==
    (~line_of_sight /\ ret = "true") => map \notin seen

\* C3 amended: under the adjacent policy the loop ends for every grid with
\* fewer than 4 rows or fewer than 4 columns.
C3_AdjacentLoopEndsOnNarrowGrids ==
    (~line_of_sight /\ ret = "true" /\ (row_count < 4 \/ column_count < 4))
        => map \notin seen

\* C3 witness: a narrow grid with floor that started with occupied seats
\* reached its fixed point after two calls that changed it
C3_Witness ==
    /\ ~line_of_sight
    /\ ret = "false"
    /\ row_count < 4 \/ column_count < 4
    /\ Cardinality(seen) >= 3
    /\ HasFloor(ingested)
    /\ HasOccupied(ingested)

\* C4: under the line-of-sight policy the loop `while layout.evolve() {}` ends
\* for every grid: no call that returns true produces a map evolve() was
\* already called on.
C4_LineOfSightLoopEnds ==
    (line_of_sight /\ ret = "true") => map \notin seen

\* C4 witness: a grid with floor that started with occupied seats was changed
\* by a call and then reached its fixed point
C4_Witness ==
    /\ line_of_sight
    /\ ret = "false"
    /\ Cardinality(seen) >= 2
    /\ HasFloor(ingested)
    /\ HasOccupied(ingested)

\* C5: once evolve() has returned false, the next call returns false and leaves
\* the map and the value of count_occupants() as they were.
C5_FixedPointIsKept ==
    [][ret = "false" =>
          /\ ret' = "false"
          /\ map' = map
          /\ count_occupants(Layout)' = count_occupants(Layout)]_vars

\* C5 witness: evolve() was called again after it had returned false, on a
\* grid that had changed before
C5_Witness ==
    /\ ret_before = "false"
    /\ ret = "false"
    /\ Cardinality(seen) >= 2
    /\ HasOccupied(map)

AllEmpty3x3 == [a \in 1..9 |-> "Empty"]
AllOccupied3x3 == [a \in 1..9 |-> "Occupied"]
Corners3x3 == [a \in 1..9 |-> IF a \in {1, 3, 7, 9} THEN "Occupied" ELSE "Empty"]

FromAllEmpty3x3 ==
    /\ row_count = 3
    /\ column_count = 3
    /\ ingested = AllEmpty3x3
    /\ ret # "none"

\* C6 as stated: from the 3x3 grid of Empty seats the first evolve() makes all
\* nine seats Occupied, and a call on that grid returns false and leaves the
\* count at 9.
C6_AllEmptyConvergesInOneGeneration ==
    FromAllEmpty3x3 =>
        /\ map = AllOccupied3x3
        /\ count_occupants(Layout) = 9
        /\ before = AllOccupied3x3 => ret = "false"

\* C6 amended: from the 3x3 grid of Empty seats the first evolve() makes all
\* nine seats Occupied (count 9), the second returns true and empties the
\* centre and the four edge seats (count 4, the corners), and the third and
\* every later call returns false and leaves the corners Occupied.
C6_AllEmptyConvergesInTwoGenerations ==
    FromAllEmpty3x3 =>
        /\ before \in {AllEmpty3x3, AllOccupied3x3, Corners3x3}
        /\ before = AllEmpty3x3 =>
              map = AllOccupied3x3 /\ ret = "true" /\ count_occupants(Layout) = 9
        /\ before = AllOccupied3x3 =>
              map = Corners3x3 /\ ret = "true" /\ count_occupants(Layout) = 4
        /\ before = Corners3x3 =>
              map = Corners3x3 /\ ret = "false" /\ count_occupants(Layout) = 4

\* C6 witness: the run from the 3x3 grid of Empty seats called evolve() after
\* it had returned false, under the line-of-sight policy
C6_Witness ==
    /\ FromAllEmpty3x3
    /\ line_of_sight
    /\ ret_before = "false"
    /\ ret = "false"

\* seats c1 < c2 of row 0 with nothing but floor between them
FacingSeats(c1, c2) ==
    /\ c1 < c2
    /\ get_cell(Layout, 0, c1) # "Floor"
    /\ get_cell(Layout, 0, c2) # "Floor"
    /\ \A c \in (c1 + 1)..(c2 - 1) : get_cell(Layout, 0, c) = "Floor"

\* C7: under the line-of-sight policy, for two seats of a row with only floor
\* between them, has_adjacent_occupant from either towards the other is true
\* iff the other is Occupied, at every distance and whatever lies beyond.
C7_LineOfSightReach ==
    (line_of_sight /\ row_count = 1) =>
        \A c1, c2 \in 0..(column_count - 1) :
            FacingSeats(c1, c2) =>
                /\ has_adjacent_occupant(Layout, 0, c1, 1, 0)
                      = (get_cell(Layout, 0, c2) = "Occupied")
                /\ has_adjacent_occupant(Layout, 0, c2, -1, 0)
                      = (get_cell(Layout, 0, c1) = "Occupied")

\* C7 witness: the row `#....L#` went through evolve(): the seats at columns 0
\* and 5 face each other over four floor cells, an occupied seat lies beyond
C7_Witness ==
    /\ line_of_sight
    /\ ret # "none"
    /\ map = <<"Occupied", "Floor", "Floor", "Floor", "Floor", "Empty", "Occupied">>
    /\ FacingSeats(0, 5)
    /\ has_adjacent_occupant(Layout, 0, 5, -1, 0)
    /\ ~has_adjacent_occupant(Layout, 0, 0, 1, 0)

(***************************************************************************)
(* day-24: directions, the token iterator, coordinates                     *)
(***************************************************************************)
Direction == {"East", "Southeast", "Southwest", "West", "Northwest", "Northeast"}

from_index(index) ==
    CASE index = 0 -> "East"
      [] index = 1 -> "Southeast"
      [] index = 2 -> "Southwest"
      [] index = 3 -> "West"
      [] index = 4 -> "Northwest"
      [] index = 5 -> "Northeast"

\* DirectionIterator::next at `cursor` (counted from 0) of `line`: None at the
\* end, Some(direction) with the new cursor, or a panic (an unexpected
\* character, or a slice past the end of the line after `s` or `n`)
DirectionIterator_next(line, cursor) ==
    IF cursor = Len(line) THEN [kind |-> "None", direction |-> "East", cursor |-> cursor]
    ELSE LET first == line[cursor + 1]
             second == IF cursor + 1 < Len(line) THEN line[cursor + 2] ELSE "past the end"
         IN  CASE first = "e" -> [kind |-> "Some", direction |-> "East", cursor |-> cursor + 1]
               [] first = "w" -> [kind |-> "Some", direction |-> "West", cursor |-> cursor + 1]
               [] first = "s" /\ second = "e" ->
                      [kind |-> "Some", direction |-> "Southeast", cursor |-> cursor + 2]
               [] first = "s" /\ second = "w" ->
                      [kind |-> "Some", direction |-> "Southwest", cursor |-> cursor + 2]
               [] first = "n" /\ second = "w" ->
                      [kind |-> "Some", direction |-> "Northwest", cursor |-> cursor + 2]
               [] first = "n" /\ second = "e" ->
                      [kind |-> "Some", direction |-> "Northeast", cursor |-> cursor + 2]
               [] OTHER -> [kind |-> "panic", direction |-> "East", cursor |-> cursor]

\* the values of an i8, and the value an i8 holds after a wrapping operation
I8 == -128..127
Wrap8(v) == ((v + 128) % 256) - 128

Coordinate_new == [x |-> 0, y |-> 0]

\* the additions of Coordinate::step, before they are stored in the i8 fields
StepSum(coordinate, direction) ==
    CASE direction = "East"      -> [x |-> coordinate.x + 2, y |-> coordinate.y]
      [] direction = "Southeast" -> [x |-> coordinate.x + 1, y |-> coordinate.y - 2]
      [] direction = "Southwest" -> [x |-> coordinate.x - 1, y |-> coordinate.y - 2]
      [] direction = "West"      -> [x |-> coordinate.x - 2, y |-> coordinate.y]
      [] direction = "Northwest" -> [x |-> coordinate.x - 1, y |-> coordinate.y + 2]
      [] direction = "Northeast" -> [x |-> coordinate.x + 1, y |-> coordinate.y + 2]

\* Coordinate::step overflows an i8: a panic in a build with overflow checks
step_overflows(coordinate, direction) ==
    LET sum == StepSum(coordinate, direction)
    IN  sum.x \notin I8 \/ sum.y \notin I8

\* mutant: West moves one column
step_west_single(coordinate, direction) ==
    LET sum == StepSum(coordinate, direction)
    IN  IF direction = "West"
        THEN [x |-> Wrap8(sum.x + 1), y |-> Wrap8(sum.y)]
        ELSE [x |-> Wrap8(sum.x), y |-> Wrap8(sum.y)]

\* mutant: Northeast moves two columns
step_northeast_skewed(coordinate, direction) ==
    LET sum == StepSum(coordinate, direction)
    IN  IF direction = "Northeast"
        THEN [x |-> Wrap8(sum.x + 1), y |-> Wrap8(sum.y)]
        ELSE [x |-> Wrap8(sum.x), y |-> Wrap8(sum.y)]

\* Coordinate::step, with the wrapping arithmetic of a build without overflow
\* checks (the same value as the checked one whenever that does not panic)
step(coordinate, direction) ==
    LET sum == StepSum(coordinate, direction)
    IN  [x |-> Wrap8(sum.x), y |-> Wrap8(sum.y)]

\* bit operations on unsigned integers
RECURSIVE BitOr(_, _)
BitOr(a, b) ==
    IF a = 0 THEN b
    ELSE IF b = 0 THEN a
    ELSE (IF a % 2 = 1 \/ b % 2 = 1 THEN 1 ELSE 0) + 2 * BitOr(a \div 2, b \div 2)

RECURSIVE BitAnd(_, _)
BitAnd(a, b) ==
    IF a = 0 \/ b = 0 THEN 0
    ELSE (IF a % 2 = 1 /\ b % 2 = 1 THEN 1 ELSE 0) + 2 * BitAnd(a \div 2, b \div 2)

ShiftLeft16(a, n) == (a * 2^n) % 65536
ShiftRight(a, n) == a \div 2^n

\* mutant: the two bytes of the address are read in the other order
Coordinate_from_address_swapped(address) ==
    [x |-> BitAnd(address, 255) - 128, y |-> BitAnd(ShiftRight(address, 8), 255) - 128]

Coordinate_from_address(address) ==
    LET x == BitAnd(ShiftRight(address, 8), 255)
        y == BitAnd(address, 255)
    IN  [x |-> x - 128, y |-> y - 128]

Coordinate_get_address(self) ==
    LET high_byte == self.x + 128
        low_byte == self.y + 128
    IN  BitOr(ShiftLeft16(high_byte, 8), low_byte)

\* the state of the loop of get_coordinate: the cursor of the iterator, the
\* coordinate reached with wrapping steps, whether a step overflowed, whether
\* the iterator panicked, whether it returned None
LoopStart ==
    [cursor |-> 0, coordinate |-> Coordinate_new, overflowed |-> FALSE,
     malformed |-> FALSE, finished |-> FALSE]

\* one pass of the loop of get_coordinate
LoopPass(line, at) ==
    LET item == DirectionIterator_next(line, at.cursor)
    IN  IF item.kind = "None" THEN [at EXCEPT !.finished = TRUE]
        ELSE IF item.kind = "panic" THEN [at EXCEPT !.malformed = TRUE, !.finished = TRUE]
        ELSE [cursor |-> item.cursor,
              coordinate |-> step(at.coordinate, item.direction),
              overflowed |-> at.overflowed \/ step_overflows(at.coordinate, item.direction),
              malformed |-> FALSE,
              finished |-> FALSE]

\* up to n passes of the loop
RECURSIVE LoopPasses(_, _, _)
LoopPasses(line, at, n) ==
    IF n = 0 \/ at.finished THEN at
    ELSE LoopPasses(line, LoopPass(line, at), n - 1)

\* the loop until the iterator ends, eight passes at a time
RECURSIVE LoopFrom(_, _)
LoopFrom(line, at) ==
    IF at.finished THEN at ELSE LoopFrom(line, LoopPasses(line, at, 8))

get_coordinate(line) ==
    LET end == LoopFrom(line, LoopStart)
    IN  [malformed |-> end.malformed, overflowed |-> end.overflowed,
         coordinate |-> end.coordinate]

get_adjacent_tiles(coordinate) ==
    [index \in 1..6 |-> step(coordinate, from_index(index - 1))]

\* the loop of count_adjacent_black_tiles from tile i of adjacent_tiles on
RECURSIVE CountBlackFrom(_, _, _, _)
CountBlackFrom(adjacent_tiles, black, i, count) ==
    IF i > 6 THEN count
    ELSE IF Coordinate_get_address(adjacent_tiles[i]) \in black
         THEN IF count + 1 > 2
              THEN count + 1
              ELSE CountBlackFrom(adjacent_tiles, black, i + 1, count + 1)
         ELSE CountBlackFrom(adjacent_tiles, black, i + 1, count)

count_adjacent_black_tiles(coordinate, black) ==
    CountBlackFrom(get_adjacent_tiles(coordinate), black, 1, 0)

\* the elements of a BitSet in the order its iterator yields them
RECURSIVE BitSetIter(_)
BitSetIter(set) ==
    IF set = {} THEN <<>>
    ELSE LET least == CHOOSE a \in set : \A b \in set : a <= b
         IN  <<least>> \o BitSetIter(set \ {least})

\* mutant: the tile is inserted, never removed
flip_insert_only(black, tile) == black \cup {tile}

\* `if !black_tiles.remove(tile) { black_tiles.insert(tile); }`
flip(black, tile) == IF tile \in black THEN black \ {tile} ELSE black \cup {tile}

RECURSIVE FlipFrom(_, _, _)
FlipFrom(black, tiles_to_flip, i) ==
    IF i > Len(tiles_to_flip) THEN black
    ELSE FlipFrom(flip(black, tiles_to_flip[i]), tiles_to_flip, i + 1)

AdjacentAddresses(tile) ==
    {Coordinate_get_address(get_adjacent_tiles(Coordinate_from_address(tile))[i]) : i \in 1..6}

\* white_tiles of evolve_tiles after difference_with
white_tiles(black) == (UNION {AdjacentAddresses(tile) : tile \in black}) \ black

\* the black tiles the first loop of evolve_tiles pushes
BlackToFlip(black) ==
    {tile \in black :
        LET n == count_adjacent_black_tiles(Coordinate_from_address(tile), black)
        IN  n = 0 \/ n > 2}

\* the white tiles the second loop of evolve_tiles pushes
WhiteToFlip(black) ==
    {tile \in white_tiles(black) :
        count_adjacent_black_tiles(Coordinate_from_address(tile), black) = 2}

\* tiles_to_flip of evolve_tiles when its last loop starts
tiles_to_flip(black) == BitSetIter(BlackToFlip(black)) \o BitSetIter(WhiteToFlip(black))

\* a step of evolve_tiles overflows: get_adjacent_tiles is called on every
\* black tile and on every tile of white_tiles
evolve_tiles_overflows(black) ==
    \E tile \in black \cup white_tiles(black) :
        \E index \in 0..5 : step_overflows(Coordinate_from_address(tile), from_index(index))

\* evolve_tiles: black_tiles when it returns (wrapping steps)
evolve_tiles(black) == FlipFrom(black, tiles_to_flip(black), 1)

(***************************************************************************)
(* day-24: the lines read and the actions                                  *)
(***************************************************************************)
Days == 100

\* the characters a line is made of; "x" stands for every other character
InputChars == {"e", "s", "w", "n", "x"}

RECURSIVE TextsOfLength(_)
TextsOfLength(n) ==
    IF n = 0 THEN {<<>>}
    ELSE {Append(t, c) : t \in TextsOfLength(n - 1), c \in InputChars}

ShortLines == UNION {TextsOfLength(n) : n \in 0..MaxChars}

\* `token` written k times
Repeat(token, k) ==
    [i \in 1..(k * Len(token)) |-> token[((i - 1) % Len(token)) + 1]]

\* the lines that walk up to MaxRun tokens in one direction
LongLines ==
    {Repeat(token, k) :
        token \in {<<"e">>, <<"s", "e">>, <<"s", "w">>, <<"w">>, <<"n", "w">>, <<"n", "e">>},
        k \in (MaxRun - RunLengths + 1)..MaxRun}

HexLines == ShortLines \cup LongLines

\* get_coordinate of every line that is read
CoordinateOf == [line \in HexLines |-> get_coordinate(line)]

InitHex ==
    /\ overflow_checks \in BOOLEAN
    /\ black_tiles = {}
    /\ hphase = "ingest"
    /\ day = 0
    /\ black_before = {}
    /\ seed = {}
    /\ lines = <<>>
    /\ printed = <<>>

\* a panic unwinds main: black_tiles is dropped and the process ends
HexPanic(where) ==
    /\ hphase' = where
    /\ black_tiles' = {}
    /\ lines' = <<>>
    /\ UNCHANGED <<overflow_checks, day, seed, printed>>

\* the closure main passes to read_with, for one line
ReadLine ==
    /\ hphase = "ingest"
    /\ Len(lines) < MaxLines
    /\ \E line \in HexLines :
          LET got == CoordinateOf[line]
          IN  IF got.malformed \/ (overflow_checks /\ got.overflowed)
              THEN HexPanic("panicked_ingest") /\ UNCHANGED black_before
              ELSE /\ black_tiles' = flip(black_tiles, Coordinate_get_address(got.coordinate))
                   /\ lines' = Append(lines, line)
                   /\ UNCHANGED <<overflow_checks, hphase, day, black_before, seed, printed>>

\* read_with returns: the reader is dropped and the first count is printed
HexEndOfInput ==
    /\ hphase = "ingest"
    /\ hphase' = "evolve"
    /\ seed' = black_tiles
    /\ lines' = <<>>
    /\ printed' = Append(printed, Cardinality(black_tiles))
    /\ UNCHANGED <<overflow_checks, black_tiles, day, black_before>>

\* one pass of `for _day in 1..=days`
EvolveDay ==
    /\ hphase = "evolve"
    /\ day < Days
    /\ Cardinality(black_tiles) <= MaxBlack
    /\ black_before' = black_tiles
    /\ IF overflow_checks /\ evolve_tiles_overflows(black_tiles)
       THEN HexPanic("panicked_evolve")
       ELSE /\ black_tiles' = evolve_tiles(black_tiles)
            /\ day' = day + 1
            /\ UNCHANGED <<overflow_checks, hphase, seed, lines, printed>>

\* the loop is over: the second count is printed
HexDone ==
    /\ hphase = "evolve"
    /\ day = Days
    /\ hphase' = "done"
    /\ printed' = Append(printed, Cardinality(black_tiles))
    /\ UNCHANGED <<overflow_checks, black_tiles, day, black_before, seed, lines>>

(***************************************************************************)
(* day-24: a round trip through the address, for every coordinate and      *)
(* every address                                                           *)
(***************************************************************************)
Addresses == 0..65535

InitAddress ==
    /\ probe \in [kind : {"coordinate"}, x : I8, y : I8, address : {0}]
                  \cup [kind : {"address"}, x : {0}, y : {0}, address : Addresses]
    /\ echo = [x |-> 0, y |-> 0, address |-> 0]
    /\ echoed = FALSE

\* Coordinate::from_address(c.get_address())
AddressThenCoordinate ==
    /\ probe.kind = "coordinate"
    /\ ~echoed
    /\ LET address == Coordinate_get_address([x |-> probe.x, y |-> probe.y])
           back == Coordinate_from_address(address)
       IN  echo' = [x |-> back.x, y |-> back.y, address |-> address]
    /\ echoed' = TRUE
    /\ UNCHANGED probe

\* Coordinate::from_address(a).get_address()
CoordinateThenAddress ==
    /\ probe.kind = "address"
    /\ ~echoed
    /\ LET coordinate == Coordinate_from_address(probe.address)
       IN  echo' = [x |-> coordinate.x, y |-> coordinate.y,
                    address |-> Coordinate_get_address(coordinate)]
    /\ echoed' = TRUE
    /\ UNCHANGED probe

(***************************************************************************)
(* day-24: the coordinate of get_coordinate, one step at a time            *)
(***************************************************************************)
\* `let mut coordinate = Coordinate::new()` in a build of either kind
InitWalk ==
    /\ walker = Coordinate_new
    /\ wphase = "walking"
    /\ walk_checks \in BOOLEAN

\* `coordinate.step(&direction)` for the next direction of the line
Walk ==
    /\ wphase = "walking"
    /\ \E direction \in Direction :
          IF walk_checks /\ step_overflows(walker, direction)
          THEN /\ wphase' = "panicked"
               /\ walker' = Coordinate_new
          ELSE /\ walker' = step(walker, direction)
               /\ wphase' = wphase
    /\ UNCHANGED walk_checks

(***************************************************************************)
(* day-24: one call to get_coordinate, on every line of up to MaxPathChars *)
(* characters                                                              *)
(***************************************************************************)
PathLines == UNION {TextsOfLength(n) : n \in 0..MaxPathChars}

InitPath ==
    /\ path \in PathLines
    /\ landed = Coordinate_new
    /\ pphase = "line"
    /\ path_checks \in BOOLEAN

\* `let coordinate = get_coordinate(line)` in the closure of main
GetCoordinate ==
    /\ pphase = "line"
    /\ LET got == get_coordinate(path)
       IN  IF got.malformed \/ (path_checks /\ got.overflowed)
           THEN /\ pphase' = "panicked"
                /\ landed' = Coordinate_new
           ELSE /\ pphase' = "returned"
                /\ landed' = got.coordinate
    /\ UNCHANGED <<path, path_checks>>

(***************************************************************************)
(* day-24: the transition rule as the specification states it, on points   *)
(* <<x, y>> of the unbounded hexagonal plane                               *)
(***************************************************************************)
HexDeltas == {<<2, 0>>, <<1, -2>>, <<-1, -2>>, <<-2, 0>>, <<-1, 2>>, <<1, 2>>}

\* the point of an address, by arithmetic
PointOf(address) == <<(address \div 256) - 128, (address % 256) - 128>>

Points(tiles) == {PointOf(a) : a \in tiles}

NeighboursOf(p) == {<<p[1] + d[1], p[2] + d[2]>> : d \in HexDeltas}

BlackNeighbours(p, black) == Cardinality(NeighboursOf(p) \cap black)

\* the points of a set and their neighbours
Near(points) == points \cup UNION {NeighboursOf(p) : p \in points}

\* the black points after one generation; a white point without a black
\* neighbour stays white, so only the points of Near(black) are listed
RulePoints(black) ==
    {p \in Near(black) :
        IF p \in black
        THEN BlackNeighbours(p, black) \in {1, 2}
        ELSE BlackNeighbours(p, black) = 2}

InField(points) == \A p \in points : p[1] \in I8 /\ p[2] \in I8

\* evolve_tiles has been called, and black_before is the set it was called on
EvolveTilesCalled == day >= 1 \/ hphase = "panicked_evolve"

(***************************************************************************)
(* Claims about day-24                                                     *)
(***************************************************************************)

\* C2: for every black set whose tiles and their neighbours lie inside the
\* representable range, one call to evolve_tiles produces exactly the set of
\* the rule: a black tile stays black iff it has 1 or 2 black neighbours, a
\* white tile becomes black iff it has exactly 2, every other tile stays white.
C2_EvolveTilesAppliesRule ==
    (EvolveTilesCalled /\ InField(Near(Points(black_before)))) =>
        /\ hphase # "panicked_evolve"
        /\ Points(black_tiles) = RulePoints(Points(black_before))

\* C2, what the code does: the call produces the set of the rule whenever it
\* returns, and it returns unless the build checks overflow and a neighbour of
\* a neighbour lies outside the range.
C2_EvolveTilesAppliesRuleOrPanics ==
    (EvolveTilesCalled /\ InField(Near(Points(black_before)))) =>
        IF hphase = "panicked_evolve"
        THEN overflow_checks /\ ~InField(Near(Near(Points(black_before))))
        ELSE Points(black_tiles) = RulePoints(Points(black_before))

\* C2: a call that returned met every case of the rule at once
C2_AllCasesMet ==
    LET black == Points(black_before)
    IN  /\ day >= 1
        /\ hphase = "evolve"
        /\ InField(Near(black))
        /\ \E p \in black : BlackNeighbours(p, black) = 0
        /\ \E p \in black : BlackNeighbours(p, black) \in {1, 2}
        /\ \E p \in black : BlackNeighbours(p, black) > 2
        /\ \E p \in Near(black) \ black : BlackNeighbours(p, black) = 2
        /\ \E p \in Near(black) \ black : BlackNeighbours(p, black) > 2

\* C8: starting from a black set of exactly one tile, the black set is empty
\* after the first call to evolve_tiles and after every further call up to
\* generation 100.
C8_SingleTileDecays ==
    (Cardinality(seed) = 1 /\ EvolveTilesCalled) =>
        /\ hphase # "panicked_evolve"
        /\ black_tiles = {}

\* C8, what the code does: every call that returns leaves the black set empty,
\* and the first call returns unless the build checks overflow and the tile
\* lies within two steps of the edge of the field.
C8_SingleTileDecaysOrPanics ==
    (Cardinality(seed) = 1 /\ EvolveTilesCalled) =>
        IF hphase = "panicked_evolve"
        THEN overflow_checks /\ ~InField(Near(Near(Points(seed))))
        ELSE black_tiles = {}

\* C8: the run from a single tile has printed 1 and, after 100 days, 0
C8_SingleTileRunEnded ==
    /\ Cardinality(seed) = 1
    /\ hphase = "done"
    /\ day = Days
    /\ printed = <<1, 0>>

\* the address of the tile line i of the input addresses
AddressOfLine(i) == Coordinate_get_address(CoordinateOf[lines[i]].coordinate)

\* C9: while lines are read, a tile is black iff an odd number of the lines
\* read so far address it; two lines that address the same tile leave it white.
C9_BlackIffOddNumberOfLines ==
    hphase = "ingest" =>
        \A a \in black_tiles \cup {AddressOfLine(i) : i \in 1..Len(lines)} :
            a \in black_tiles
                <=> Cardinality({i \in 1..Len(lines) : AddressOfLine(i) = a}) % 2 = 1

\* C9 witness: the same line was read twice with a line for another tile
\* between them: the first tile is white, the other is black
C9_Witness ==
    /\ hphase = "ingest"
    /\ Len(lines) = 3
    /\ lines[1] = lines[3]
    /\ lines[1] # <<>>
    /\ AddressOfLine(2) # AddressOfLine(1)
    /\ black_tiles = {AddressOfLine(2)}

\* C10: from_address(c.get_address()) = c for every coordinate with x and y in
\* [-128, 127], where get_address() is (x + 128) * 256 + (y + 128), and
\* from_address(a).get_address() = a for every address a in [0, 65535].
C10_AddressRoundTrip ==
    echoed =>
        IF probe.kind = "coordinate"
        THEN /\ echo.x = probe.x
             /\ echo.y = probe.y
             /\ echo.address = (probe.x + 128) * 256 + (probe.y + 128)
        ELSE /\ echo.address = probe.address
             /\ echo.x \in I8
             /\ echo.y \in I8

\* C10 witness: the round trip of the coordinate (-128, 127) was made
C10_Witness ==
    /\ echoed
    /\ probe.kind = "coordinate"
    /\ probe.x = -128
    /\ probe.y = 127
    /\ echo.address = 255


(***************************************************************************)
(* Further claims about day-11                                             *)
(***************************************************************************)

\* C11: a call to evolve() returns true exactly when the map after the call
\* differs from the map before it; when collect_changes returns no change the
\* call returns false and leaves every cell, row_count and column_count alone.
C11_EvolveReturnsTrueIffChanged ==
    [][(phase = "evolve" /\ phase' = "evolve") =>
          /\ (ret' = "true") <=> (map' # map)
          /\ ret' \in {"true", "false"}
          /\ collect_changes(Layout) = <<>> =>
                /\ ret' = "false"
                /\ map' = map
                /\ row_count' = row_count
                /\ column_count' = column_count]_vars

\* C11 witness: under the adjacent policy a call that changed a grid with floor
\* was followed by a call that found no change and left the grid as it was
C11_Witness ==
    /\ ~line_of_sight
    /\ ret_before = "true"
    /\ ret = "false"
    /\ map = before
    /\ HasFloor(map)
    /\ HasOccupied(map)

(***************************************************************************)
(* Further claims about day-24                                             *)
(***************************************************************************)

\* C12 as stated: every coordinate reached from the origin by direction steps
\* has x and y both even.
C12_BothEven ==
    wphase = "walking" => walker.x % 2 = 0 /\ walker.y % 2 = 0

\* C12 amended: every coordinate reached from the origin by direction steps
\* has y even and x of the parity of y / 2: x is even iff y is a multiple of 4.
C12_YEvenAndXFollows ==
    wphase = "walking" =>
        /\ walker.y % 2 = 0
        /\ (walker.x % 2 = 0) <=> (walker.y % 4 = 0)

\* C12 witness: the walk reached (127, -126), an odd x next to the edge
C12_Witness ==
    /\ wphase = "walking"
    /\ walker = [x |-> 127, y |-> -126]

\* C13: a step that would take x or y out of [-128, 127] aborts the run, in
\* get_coordinate and in evolve_tiles alike: no line whose steps overflow is
\* turned into a tile, and no call to evolve_tiles whose steps overflow returns.
C13_OverflowAborts ==
    /\ \A i \in 1..Len(lines) : ~CoordinateOf[lines[i]].overflowed
    /\ (day >= 1 /\ hphase \in {"evolve", "done"}) => ~evolve_tiles_overflows(black_before)

\* C13, what the code does: in a build with overflow checks such a step aborts
\* the run; in a build without them it wraps and the run goes on.
C13_OverflowAbortsWhenChecked ==
    overflow_checks => C13_OverflowAborts

\* C13: in a build without overflow checks the line of 64 `e` wrapped from
\* x = 126 to x = -128 and made the tile of address 128 black
C13_WrappedToOppositeEdge ==
    /\ ~overflow_checks
    /\ hphase = "ingest"
    /\ lines = <<Repeat(<<"e">>, 64)>>
    /\ black_tiles = {128}

\* the bytes add_line accepts and the cells they stand for, as the
\* specification lists them
SeatBytes == {".", "L", "#"}

CellOfSeatByte(byte) ==
    IF byte = "." THEN "Floor" ELSE IF byte = "L" THEN "Empty" ELSE "Occupied"

Acceptable(line, columns) ==
    /\ \A i \in 1..Len(line) : line[i] \in SeatBytes
    /\ columns < 0 \/ Len(line) = columns

\* C14: add_line panics on a line with a byte other than `.`, `L`, `#` and on
\* a line of another length than the first; from every other line it returns,
\* so that after the accepted lines column_count is the length of the first,
\* row_count is their number, and the map holds row_count * column_count cells,
\* the cell of byte `column` of line `row` at address row * column_count + column.
C14_AddLineBuildsTheGrid ==
    /\ phase = "panicked" => ~Acceptable(offered, expected)
    /\ (phase = "ingest" /\ accepted # <<>>) => Acceptable(offered, expected)
    /\ phase = "ingest" =>
          /\ row_count = Len(accepted)
          /\ accepted # <<>> => column_count = Len(accepted[1])
          /\ Len(map) = row_count * column_count
          /\ \A row \in 0..(row_count - 1) :
                /\ Len(accepted[row + 1]) = column_count
                /\ \A column \in 0..(column_count - 1) :
                      map[row * column_count + column + 1]
                         = CellOfSeatByte(accepted[row + 1][column + 1])

\* C14 witness: three lines of three bytes, all three bytes among them, were
\* accepted
C14_Witness ==
    /\ phase = "ingest"
    /\ Len(accepted) = 3
    /\ column_count = 3
    /\ HasFloor(map)
    /\ HasOccupied(map)
    /\ \E a \in 1..Len(map) : map[a] = "Empty"

\* C14: a line of good bytes was rejected for its length
C14_RejectedForLength ==
    /\ phase = "panicked"
    /\ \A i \in 1..Len(offered) : offered[i] \in SeatBytes
    /\ expected >= 0
    /\ Len(offered) # expected

\* C15: the loop of main calls evolve_tiles exactly 100 times and then stops,
\* whatever the black set, and the count printed last is the size of the black
\* set after the 100th call.
C15_HundredCallsThenStop ==
    /\ hphase # "panicked_evolve"
    /\ day <= Days
    /\ hphase = "done" =>
          /\ day = Days
          /\ printed = <<Cardinality(seed), Cardinality(black_tiles)>>

\* C15, what the code does: the loop stops after 100 calls and prints the size
\* of the black set, unless a call panics in a build with overflow checks.
C15_HundredCallsUnlessPanic ==
    /\ hphase = "panicked_evolve" => overflow_checks /\ evolve_tiles_overflows(black_before)
    /\ day <= Days
    /\ hphase = "done" =>
          /\ day = Days
          /\ printed = <<Cardinality(seed), Cardinality(black_tiles)>>

\* C15: the run ended after 100 calls on a black set that was not empty
C15_EndedWithBlackTiles ==
    /\ hphase = "done"
    /\ day = Days
    /\ black_tiles # {}

\* C16: the early exits of count_adjacent_occupants do not change a decision:
\* for every cell of every grid, under either policy, the value returned with
\* expecting_zero = true is 0 iff the full count over the 8 directions is 0,
\* and the value returned with expecting_zero = false reaches the threshold
\* (4 adjacent, 5 line of sight) iff the full count does.
C16_EarlyExitsKeepTheTests ==
    phase \in {"ingest", "evolve"} =>
        \A row \in 0..(row_count - 1), column \in 0..(column_count - 1) :
            LET threshold == IF line_of_sight THEN 5 ELSE 4
                full == FullCount(Layout, row, column)
            IN  /\ (count_adjacent_occupants(Layout, row, column, TRUE) = 0) <=> (full = 0)
                /\ (count_adjacent_occupants(Layout, row, column, FALSE) >= threshold)
                      <=> (full >= threshold)

\* C16 witness: under the adjacent policy the centre of the 3x3 grid of
\* occupied seats sees 8 occupants; the scans stopped at 1 and at 5
C16_Witness ==
    /\ ~line_of_sight
    /\ phase = "evolve"
    /\ row_count = 3
    /\ map = AllOccupied3x3
    /\ FullCount(Layout, 1, 1) = 8
    /\ count_adjacent_occupants(Layout, 1, 1, TRUE) = 1
    /\ count_adjacent_occupants(Layout, 1, 1, FALSE) = 5

\* the addresses of a map that hold Floor
FloorAddresses(m) == {a \in 1..Len(m) : m[a] = "Floor"}

\* C17: after any number of calls to evolve() the addresses that hold Floor
\* are those of the ingested grid, and row_count, column_count and the length
\* of the map are what they were when the read loop ended.
C17_FloorAndShapeAreKept ==
    phase = "evolve" =>
        /\ FloorAddresses(map) = FloorAddresses(ingested)
        /\ Len(map) = Len(ingested)
        /\ row_count = Len(accepted)
        /\ column_count = IF accepted = <<>> THEN -1 ELSE Len(accepted[1])

\* C17 witness: two calls changed a grid that has floor cells and seats
C17_Witness ==
    /\ phase = "evolve"
    /\ ret = "true"
    /\ ret_before = "true"
    /\ map # ingested
    /\ Cardinality(FloorAddresses(map)) >= 2
    /\ HasOccupied(map)

\* C19: on every grid with at least one cell, from every cell, in each of the
\* 8 directions and under either policy, has_adjacent_occupant reads only cells
\* with 0 <= row < row_count and 0 <= column < column_count, at an address
\* below the length of the map; the cells it reads are those of the ray, one
\* step after the other, so a ray that leaves the grid ends there and the call
\* returns false; under the adjacent policy at most one cell is read.
C19_RayStaysInTheGrid ==
    phase \in {"ingest", "evolve"} =>
        \A row \in 0..(row_count - 1), column \in 0..(column_count - 1), d \in Directions8 :
            LET ray == has_adjacent_occupant_reads(Layout, row, column, d[1], d[2])
                reads == ray.reads
            IN  /\ ray.result = has_adjacent_occupant(Layout, row, column, d[1], d[2])
                /\ \A i \in 1..Len(reads) :
                      /\ reads[i].row = row + i * d[2]
                      /\ reads[i].column = column + i * d[1]
                      /\ 0 <= reads[i].row /\ reads[i].row < row_count
                      /\ 0 <= reads[i].column /\ reads[i].column < column_count
                      /\ reads[i].address = reads[i].row * column_count + reads[i].column
                      /\ reads[i].address < Len(map)
                /\ ray.result <=> (reads # <<>> /\ map[reads[Len(reads)].address + 1] = "Occupied")
                /\ ~line_of_sight => Len(reads) <= 1

\* C19 witness: under the line-of-sight policy, on a 3x3 grid, the ray from
\* (0, 0) to the east read the floor at (0, 1) and the empty seat at (0, 2)
\* and returned false with an occupied seat at (1, 0), the next address
C19_Witness ==
    /\ line_of_sight
    /\ phase = "evolve"
    /\ row_count = 3
    /\ column_count = 3
    /\ map[2] = "Floor"
    /\ map[3] = "Empty"
    /\ map[4] = "Occupied"
    /\ Len(has_adjacent_occupant_reads(Layout, 0, 0, 1, 0).reads) = 2
    /\ ~has_adjacent_occupant(Layout, 0, 2, 1, 0)

\* the line is a sequence of the tokens e, se, sw, w, nw, ne: every `s` and
\* every `n` is followed by an `e` or a `w`
WellFormed(line) ==
    \A i \in 1..Len(line) :
        /\ line[i] \in {"e", "s", "w", "n"}
        /\ line[i] \in {"s", "n"} => (i < Len(line) /\ line[i + 1] \in {"e", "w"})

\* the occurrences of a two-character token in a well-formed line
Pairs(line, first, second) ==
    Cardinality({i \in 1..(Len(line) - 1) : line[i] = first /\ line[i + 1] = second})

\* how many times each direction occurs in a well-formed line
Occurs(line) ==
    LET chars(c) == Cardinality({i \in 1..Len(line) : line[i] = c})
    IN  [East      |-> chars("e") - Pairs(line, "s", "e") - Pairs(line, "n", "e"),
         Southeast |-> Pairs(line, "s", "e"),
         Southwest |-> Pairs(line, "s", "w"),
         West      |-> chars("w") - Pairs(line, "s", "w") - Pairs(line, "n", "w"),
         Northwest |-> Pairs(line, "n", "w"),
         Northeast |-> Pairs(line, "n", "e")]

\* the tile of a line, from the number of times each direction occurs
TileOf(line) ==
    LET n == Occurs(line)
    IN  [x |-> 2 * n.East + n.Southeast - n.Southwest - 2 * n.West - n.Northwest + n.Northeast,
         y |-> 2 * (n.Northwest + n.Northeast) - 2 * (n.Southeast + n.Southwest)]

\* C20: as long as no step leaves [-128, 127], get_coordinate returns from
\* every well-formed line the coordinate fixed by the number of times each
\* direction occurs in it, whatever their order, and its address is the
\* address of that tile: two lines that name the same tile give the same
\* coordinate and address.
C20_PathIndependence ==
    /\ pphase = "returned" =>
          /\ WellFormed(path)
          /\ landed = TileOf(path)
          /\ Coordinate_get_address(landed) = (TileOf(path).x + 128) * 256 + TileOf(path).y + 128
    /\ pphase = "panicked" => ~WellFormed(path)

\* C20 witness: get_coordinate returned from `nesewe`: `nese` lands one step
\* east, like `e`, and `we` comes back to it
C20_Witness ==
    /\ pphase = "returned"
    /\ path = <<"n", "e", "s", "e", "w", "e">>
    /\ landed = [x |-> 2, y |-> 0]
    /\ landed = get_coordinate(<<"e">>).coordinate

(***************************************************************************)
(* A claim about both programs                                             *)
(***************************************************************************)

\* no element of the sequence occurs twice
NoRepeat(sequence) ==
    \A i, j \in 1..Len(sequence) : sequence[i] = sequence[j] => i = j

\* C18: the changes of a generation name each address at most once and each
\* changes its address: collect_changes returns at most one Change per cell,
\* with a cell other than the one the map holds; tiles_to_flip of evolve_tiles
\* holds no address twice, its black tiles and its white tiles are disjoint,
\* and the call toggles exactly the tiles of the list.
C18_OneChangePerAddress ==
    /\ phase = "evolve" =>
          LET changes == collect_changes(Layout)
          IN  /\ NoRepeat([i \in 1..Len(changes) |-> changes[i].address])
              /\ \A i \in 1..Len(changes) :
                    /\ changes[i].address \in 0..(Len(map) - 1)
                    /\ map[changes[i].address + 1] # changes[i].cell
    /\ hphase = "evolve" =>
          LET flips == tiles_to_flip(black_tiles)
              flipped == {flips[i] : i \in 1..Len(flips)}
          IN  /\ NoRepeat(flips)
              /\ BlackToFlip(black_tiles) \cap WhiteToFlip(black_tiles) = {}
              /\ BlackToFlip(black_tiles) \subseteq black_tiles
              /\ WhiteToFlip(black_tiles) \cap black_tiles = {}
              /\ evolve_tiles(black_tiles) = (black_tiles \ flipped) \cup (flipped \ black_tiles)

\* C18 witness (day-11): collect_changes returns five changes that empty seats
\* of a grid that keeps occupied seats
C18_Witness ==
    /\ phase = "evolve"
    /\ LET changes == collect_changes(Layout)
       IN  /\ Len(changes) >= 5
           /\ \A i \in 1..Len(changes) : changes[i].cell = "Empty"
           /\ Len(changes) < count_occupants(Layout)

\* C18 (day-24): tiles_to_flip holds black tiles and white tiles
C18_BothColoursFlip ==
    /\ hphase = "evolve"
    /\ day < Days
    /\ Cardinality(BlackToFlip(black_tiles)) >= 2
    /\ Cardinality(WhiteToFlip(black_tiles)) >= 2

(***************************************************************************)
(* The specifications                                                      *)
(***************************************************************************)
IdleLayout ==
    /\ line_of_sight = FALSE
    /\ map = <<>>
    /\ column_count = -1
    /\ row_count = 0
    /\ phase = "idle"
    /\ ret = "none"
    /\ ret_before = "none"
    /\ before = <<>>
    /\ seen = {}
    /\ ingested = <<>>
    /\ accepted = <<>>
    /\ offered = <<>>
    /\ expected = -1

IdleHex ==
    /\ overflow_checks = FALSE
    /\ black_tiles = {}
    /\ hphase = "idle"
    /\ day = 0
    /\ black_before = {}
    /\ seed = {}
    /\ lines = <<>>
    /\ printed = <<>>

IdleAddress ==
    /\ probe = [kind |-> "idle", x |-> 0, y |-> 0, address |-> 0]
    /\ echo = [x |-> 0, y |-> 0, address |-> 0]
    /\ echoed = FALSE

IdleWalk ==
    /\ walker = Coordinate_new
    /\ wphase = "idle"
    /\ walk_checks = FALSE

IdlePath ==
    /\ path = <<>>
    /\ landed = Coordinate_new
    /\ pphase = "idle"
    /\ path_checks = FALSE

\* day-11 on every grid of up to MaxRows x MaxCols cells
NextRect ==
    \/ AddLine(MaxRows, MaxCols, MaxRows * MaxCols) /\ UNCHANGED <<hexVars, addressVars, walkVars, pathVars>>
    \/ EndOfInput /\ UNCHANGED <<hexVars, addressVars, walkVars, pathVars>>
    \/ Evolve /\ UNCHANGED <<hexVars, addressVars, walkVars, pathVars>>

InitRect == InitLayout /\ IdleHex /\ IdleAddress /\ IdleWalk /\ IdlePath

SpecRect == InitRect /\ [][NextRect]_vars

\* day-11 on every grid of one row of up to MaxWide cells
NextRow ==
    \/ AddLine(1, MaxWide, MaxWide) /\ UNCHANGED <<hexVars, addressVars, walkVars, pathVars>>
    \/ EndOfInput /\ UNCHANGED <<hexVars, addressVars, walkVars, pathVars>>
    \/ Evolve /\ UNCHANGED <<hexVars, addressVars, walkVars, pathVars>>

SpecRow == InitRect /\ [][NextRow]_vars

\* day-11 without the `los` argument, on the grids of up to BigRows x BigCols
\* cells that hold at most MaxMarked bytes other than `L`
NextBig ==
    \/ AddLine(BigRows, BigCols, MaxMarked) /\ UNCHANGED <<hexVars, addressVars, walkVars, pathVars>>
    \/ EndOfInput /\ UNCHANGED <<hexVars, addressVars, walkVars, pathVars>>
    \/ Evolve /\ UNCHANGED <<hexVars, addressVars, walkVars, pathVars>>

InitBig == InitLayout /\ ~line_of_sight /\ IdleHex /\ IdleAddress /\ IdleWalk /\ IdlePath

SpecBig == InitBig /\ [][NextBig]_vars

\* day-24
NextHex ==
    \/ ReadLine /\ UNCHANGED <<rectVars, addressVars, walkVars, pathVars>>
    \/ HexEndOfInput /\ UNCHANGED <<rectVars, addressVars, walkVars, pathVars>>
    \/ EvolveDay /\ UNCHANGED <<rectVars, addressVars, walkVars, pathVars>>
    \/ HexDone /\ UNCHANGED <<rectVars, addressVars, walkVars, pathVars>>

InitHexRun == IdleLayout /\ InitHex /\ IdleAddress /\ IdleWalk /\ IdlePath

SpecHex == InitHexRun /\ [][NextHex]_vars

\* day-24: the address of a coordinate and back
NextAddress ==
    \/ AddressThenCoordinate /\ UNCHANGED <<rectVars, hexVars, walkVars, pathVars>>
    \/ CoordinateThenAddress /\ UNCHANGED <<rectVars, hexVars, walkVars, pathVars>>

InitRoundTrip == IdleLayout /\ IdleHex /\ InitAddress /\ IdleWalk /\ IdlePath

SpecAddress == InitRoundTrip /\ [][NextAddress]_vars

\* day-24: the coordinate of get_coordinate, stepped in every direction
NextWalk ==
    \/ Walk /\ UNCHANGED <<rectVars, hexVars, addressVars, pathVars>>

InitWalkRun == IdleLayout /\ IdleHex /\ IdleAddress /\ InitWalk /\ IdlePath

SpecWalk == InitWalkRun /\ [][NextWalk]_vars

\* either program, from its start
NextEither ==
    \/ NextRect
    \/ NextHex

InitEither == InitRect \/ InitHexRun

SpecEither == InitEither /\ [][NextEither]_vars

\* day-24: get_coordinate on one line
NextPath ==
    \/ GetCoordinate /\ UNCHANGED <<rectVars, hexVars, addressVars, walkVars>>

InitPathRun == IdleLayout /\ IdleHex /\ IdleAddress /\ IdleWalk /\ InitPath

SpecPath == InitPathRun /\ [][NextPath]_vars

====
